---- MODULE Spec2Model ----
(***************************************************************************)
(* py2neo/cypher/tx.py: the client-side Cypher transaction.  One           *)
(* Transaction object, driven by one caller, against a server and a        *)
(* transport whose answers are chosen nondeterministically.                *)
(*                                                                         *)
(* A Resource is modelled by its URI (a string); None is the string        *)
(* "None".  Every action is one whole call of a public method.             *)
(***************************************************************************)
EXTENDS Integers, Sequences, FiniteSets, TLC

VARIABLES
    _statements,     \* Transaction._statements: the queue of pending statements
    _execute,        \* Transaction._execute: learned execute resource, or None
    _commit,         \* Transaction._commit: learned commit resource, or None
    _finished,       \* Transaction._finished
    last,            \* what the most recent call did (network calls, result, exception)
                     \* and was answered (status, errors array, length of results array;
                     \* the results array itself when the answer carried no error)
    location_seen,   \* history: location header of the latest response that carried one
    commit_seen,     \* history: commit field of the latest response body that carried one
    appended_since,  \* history: statements appended since the latest parsed response
    answer,          \* history: the latest response obtained (recorded under SpecAnswer)
    sx,              \* Session.execute: its position, its network calls, its result
    other,           \* the fields of the Session's other Transaction
    shared,          \* whether the two Transactions' _statements are one list object
    current,         \* which of the two Transactions the caller is working on
    session,         \* Session._transaction_uri
    inflight,        \* an execute between its POST and the rest of _post
    during,          \* history: statements appended while the latest execute was in flight
    sent,            \* history: every statement that was in the body of some POST
    appended         \* history: every statement appended

vars == <<_statements, _execute, _commit, _finished, last,
          location_seen, commit_seen, appended_since>>

\* the variables that only SpecAnswer, SpecSession, SpecTwo and SpecConc change
answer_vars == <<answer>>
session_vars == <<sx>>
two_vars == <<other, shared, current, session>>
conc_vars == <<inflight, during, sent, appended>>
allvars == <<vars, answer_vars, session_vars, two_vars, conc_vars>>

-----------------------------------------------------------------------------
(* Bounds of the model *)

MaxLen == 2        \* longest queue of pending statements
MaxLenTwo == 1     \* longest queue of either Transaction under SpecTwo

-----------------------------------------------------------------------------
(* Values *)

None == "None"

\* Session._transaction_uri, the begin URI every Transaction is created with
_transaction_uri == "tx"

\* Transaction.__init__: self._begin = Resource(uri)
_begin == _transaction_uri

\* Transaction.__init__: self._begin_commit = Resource(uri + "/commit")
_begin_commit == _transaction_uri \o "/commit"

\* the inputs of append: (statement, parameters); parameters is None or a mapping,
\* a mapping being the set of its (key, value) items
NoParameters == [given |-> FALSE, items |-> {}]
Mapping(items) == [given |-> TRUE, items |-> items]
AppendInputs ==
    { <<"s1", NoParameters>>, <<"s1", Mapping({})>>, <<"s2", Mapping({<<"k", 1>>})>> }

\* what the server and the transport may answer to a POST: a location header that
\* is absent (None) or a non-empty URI, a body with or without each of the keys
\* commit, errors and results
LocationHeaders == {None, "tx/1", "tx/2"}
CommitFields == {"tx/1/commit", "tx/2/commit"}
Error1 == [code |-> "ConstraintViolation", message |-> "m1"]
Error2 == [code |-> "X", message |-> "m2"]
ErrorArrays == { <<>>, <<Error1>>, <<Error2>>, <<Error1, Error2>>, <<Error2, Error1>> }
Result1 == [columns |-> <<"a">>, data |-> <<[rest |-> "row1"]>>]
Result2 == [columns |-> <<"b">>, data |-> <<>>]
ResultArrays == { <<>>, <<Result1>>, <<Result1, Result2>>, <<Result2, Result1>> }

NoBody == [keys |-> {}, commit |-> None, errors |-> <<>>, results |-> <<>>]

Bodies ==
    { [keys |-> ks,
       commit |-> IF "commit" \in ks THEN c ELSE None,
       errors |-> IF "errors" \in ks THEN es ELSE <<>>,
       results |-> IF "results" \in ks THEN rs ELSE <<>>] :
         ks \in SUBSET {"commit", "errors", "results"},
         c \in CommitFields,
         es \in ErrorArrays,
         rs \in ResultArrays }

\* status: how far the exchange gets
\*   "post_raises"     resource.post raises, no response is obtained
\*   "headers_raise"   a response is obtained, reading its headers raises
\*   "content_raises"  the headers are read, reading/parsing the body raises
\*   "ok"              headers and body are read
Responses ==
    { [status |-> "post_raises", location |-> None, body |-> NoBody],
      [status |-> "headers_raise", location |-> None, body |-> NoBody] }
    \cup { [status |-> "content_raises", location |-> l, body |-> NoBody] :
             l \in LocationHeaders }
    \cup { [status |-> "ok", location |-> l, body |-> b] :
             l \in LocationHeaders, b \in Bodies }

NoResponse == [status |-> "no_call", location |-> None, body |-> NoBody]

\* exceptions, and no exception
NoException == [type |-> "None", name |-> "", message |-> ""]
TransactionFinished ==
    [type |-> "TransactionFinished", name |-> "TransactionFinished", message |-> ""]
TransportFailure(status) ==
    [type |-> "Transport", name |-> status, message |-> ""]
KeyError(key) == [type |-> "KeyError", name |-> "KeyError", message |-> key]

-----------------------------------------------------------------------------
(* External collaborators, as pure functions *)

\* graph.hydrate(r["rest"]): the wire value of a row to language-level values
hydrate(rest) == [hydrated |-> rest]

\* RecordProducer(columns).produce(values): a record with named fields
produce(columns, values) == [columns |-> columns, values |-> values]

-----------------------------------------------------------------------------
(* Transaction *)

\* a _clear that leaves the queue as it is
clear_keeps == _statements

\* Transaction._clear: self._statements = []
_clear == <<>>

\* an _assert_unfinished that never raises
assert_never_raises == FALSE

\* Transaction._assert_unfinished: TRUE when it raises TransactionFinished
_assert_unfinished == _finished

\* an append that drops the parameters it is given
parameters_dropped(parameters) == {}

\* append: dict(parameters or {})
parameters_dict(parameters) ==
    IF ~parameters.given \/ parameters.items = {} THEN {} ELSE parameters.items

\* append: the entry put on the queue
statement_entry(statement, parameters) ==
    [statement |-> statement,
     parameters |-> parameters_dict(parameters),
     resultDataContents |-> <<"REST">>]

\* TransactionError.new(code, message): a class named str(code), built with message
TransactionError_new(code, message) ==
    [type |-> "TransactionError", name |-> code, message |-> message]

\* the execute resource learned once only: later location headers are ignored
learned_execute_once(location) ==
    IF location # None /\ _execute = None THEN location ELSE _execute

\* _post: location = dict(rs.headers).get("location"); if location: self._execute = ...
learned_execute(location) ==
    IF location # None THEN location ELSE _execute

\* the commit field looked at only after the errors: an answer with errors teaches none
learned_commit_unless_errors(j) ==
    IF "commit" \in j.keys /\ ~("errors" \in j.keys /\ Len(j.errors) >= 1)
    THEN j.commit ELSE _commit

\* _post: if "commit" in j: self._commit = Resource(j["commit"])
learned_commit(j) ==
    IF "commit" \in j.keys THEN j.commit ELSE _commit

\* the error built from the last element of the errors array
errors_raised_last(j) ==
    IF "errors" \in j.keys /\ Len(j.errors) >= 1
    THEN [type |-> "TransactionError", name |-> j.errors[Len(j.errors)].code,
          message |-> j.errors[Len(j.errors)].message]
    ELSE NoException

\* _post: the exception raised for the errors of the body, NoException if none is
errors_raised(j) ==
    IF "errors" \in j.keys /\ Len(j.errors) >= 1
    THEN TransactionError_new(j.errors[1].code, j.errors[1].message)
    ELSE NoException

\* the list built from j["results"] back to front
results_out_reversed(j) ==
    [i \in 1..Len(j.results) |->
        [k \in 1..Len(j.results[Len(j.results) + 1 - i].data) |->
            produce(j.results[Len(j.results) + 1 - i].columns,
                    hydrate(j.results[Len(j.results) + 1 - i].data[k].rest))]]

\* _post: the list built from j["results"]
results_out(j) ==
    [i \in 1..Len(j.results) |->
        [k \in 1..Len(j.results[i].data) |->
            produce(j.results[i].columns, hydrate(j.results[i].data[k].rest))]]

\* the outcome of a call: the new fields, what was raised and returned, the network
\* calls made, and the number of response handles obtained and not closed
Outcome(execute, commit, statements, raised, out, requests, open) ==
    [execute |-> execute, commit |-> commit, statements |-> statements,
     raised |-> raised, out |-> out, requests |-> requests, open |-> open]

\* a POST that is skipped when the queue is empty
post_skips_empty_queue(resource) ==
    IF _statements = <<>> THEN <<>>
    ELSE <<[method |-> "POST", uri |-> resource, body |-> [statements |-> _statements]]>>

\* _post: resource.post({"statements": self._statements}), the network calls it makes
post_requests(resource) ==
    <<[method |-> "POST", uri |-> resource, body |-> [statements |-> _statements]]>>

\* a _post that clears the queue on its way out, whatever happened
unanswered_cleared(raised, requests, open) ==
    Outcome(_execute, _commit, <<>>, raised, <<>>, requests, open)

\* _post: an exit before anything of the response was used: the fields are as they were
unanswered(raised, requests, open) ==
    Outcome(_execute, _commit, _statements, raised, <<>>, requests, open)

\* Transaction._post(resource), the server and transport answering rs
_post(resource, rs) ==
    LET request == post_requests(resource)
    IN  IF _assert_unfinished
        THEN Outcome(_execute, _commit, _statements, TransactionFinished, <<>>, <<>>, 0)
        ELSE IF rs.status = "post_raises"
        THEN unanswered(TransportFailure(rs.status), request, 0)
        ELSE IF rs.status = "headers_raise"
        THEN unanswered(TransportFailure(rs.status), request, 1)
        ELSE IF rs.status = "content_raises"
        THEN Outcome(learned_execute(rs.location), _commit, _statements,
                     TransportFailure(rs.status), <<>>, request, 1)
        ELSE LET j == rs.body IN
             IF errors_raised(j) # NoException
             THEN Outcome(learned_execute(rs.location), learned_commit(j), _clear,
                          errors_raised(j), <<>>, request, 0)
             ELSE IF "results" \notin j.keys
             THEN Outcome(learned_execute(rs.location), learned_commit(j), _clear,
                          KeyError("results"), <<>>, request, 0)
             ELSE Outcome(learned_execute(rs.location), learned_commit(j), _clear,
                          NoException, results_out(j), request, 0)

\* execute: self._execute or self._begin
execute_resource == IF _execute # None THEN _execute ELSE _begin

\* a commit that always goes to the begin-commit resource
commit_resource_begin == "tx/commit"

\* commit: self._commit or self._begin_commit
commit_resource == IF _commit # None THEN _commit ELSE _begin_commit

\* the flag set after the submission instead of in a finally clause
finished_on_success(finished, raised) ==
    IF raised = NoException THEN TRUE ELSE finished

\* the flag recording whether the call succeeded
finished_is_success(finished, raised) == raised = NoException

\* the flag set when the call raises
finished_on_failure(finished, raised) ==
    IF raised # NoException THEN TRUE ELSE finished

\* commit: finally: self._finished = True
commit_finally(finished, raised) == TRUE

\* execute has no assignment to self._finished
execute_finished(finished, raised) == finished

\* a rollback that always issues the DELETE, on the begin resource if need be
rollback_always_deletes ==
    <<[method |-> "DELETE", uri |-> IF _execute # None THEN _execute ELSE "tx",
       body |-> None]>>

\* rollback: if self._execute: self._execute.delete()
rollback_requests ==
    IF _execute # None THEN <<[method |-> "DELETE", uri |-> _execute, body |-> None]>>
    ELSE <<>>

\* rollback: finally: self._finished = True
rollback_finally(finished, raised) == TRUE

\* the answers a POST may get; none is drawn when the call makes no POST
Answers == IF _assert_unfinished THEN {NoResponse} ELSE Responses

\* the state after a call with outcome r that leaves the finished flag fin, the
\* exchange (if one was made) having been answered by rs
Call(op, r, fin, rs) ==
    LET posted == r.requests # <<>> /\ r.requests[1].method = "POST"
        heard == posted /\ rs.status \in {"content_raises", "ok"}
        parsed == posted /\ rs.status = "ok"
        answered == parsed /\ Len(rs.body.errors) = 0
    IN  /\ _statements' = r.statements
        /\ _execute' = r.execute
        /\ _commit' = r.commit
        /\ _finished' = fin
        /\ last' = [op |-> op, raised |-> r.raised, out |-> r.out,
                    requests |-> r.requests, open |-> r.open,
                    status |-> IF posted THEN rs.status ELSE "no_call",
                    errors |-> IF parsed THEN rs.body.errors ELSE <<>>,
                    results |-> IF parsed THEN Len(rs.body.results) ELSE 0,
                    entries |-> IF answered THEN rs.body.results ELSE <<>>,
                    results_key |-> answered /\ "results" \in rs.body.keys]
        /\ location_seen' =
              IF heard /\ rs.location # None THEN rs.location ELSE location_seen
        /\ commit_seen' =
              IF parsed /\ "commit" \in rs.body.keys THEN rs.body.commit ELSE commit_seen
        /\ appended_since' = IF parsed THEN <<>> ELSE appended_since

\* no call made yet
NoCall ==
    [op |-> "init", raised |-> NoException, out |-> <<>>, requests |-> <<>>,
     open |-> 0, status |-> "no_call", errors |-> <<>>, results |-> 0,
     entries |-> <<>>, results_key |-> FALSE]

\* a list made once, at class level: every Transaction holds the same list object
same_list_class_level == TRUE

\* Transaction.__init__: self._statements = [] makes a new list for every Transaction,
\* so two Transactions never hold the same list object
same_list == FALSE

\* Transaction.__init__, for the Session's other Transaction (with its histories)
NewTransaction ==
    [statements |-> <<>>, execute |-> None, commit |-> None, finished |-> FALSE,
     location_seen |-> None, commit_seen |-> None, appended_since |-> <<>>]

\* no execute in flight
Idle == [pc |-> "idle", requests |-> <<>>, rs |-> NoResponse]

\* Session.execute not running
NotRunning == [pc |-> "idle", log |-> <<>>, raised |-> NoException, ret |-> <<>>]

\* Session.__init__ and Transaction.__init__
Init ==
    /\ _statements = <<>>
    /\ _execute = None
    /\ _commit = None
    /\ _finished = FALSE
    /\ last = NoCall
    /\ location_seen = None
    /\ commit_seen = None
    /\ appended_since = <<>>
    /\ answer = NoResponse
    /\ sx = NotRunning
    /\ other = NewTransaction
    /\ shared = same_list
    /\ current = 1
    /\ session = [_transaction_uri |-> _transaction_uri]
    /\ inflight = Idle
    /\ during = <<>>
    /\ sent = {}
    /\ appended = {}

\* Transaction.append(statement, parameters)
append ==
    \E in \in AppendInputs :
        IF _assert_unfinished
        THEN Call("append",
                  Outcome(_execute, _commit, _statements, TransactionFinished,
                          <<>>, <<>>, 0),
                  _finished, NoResponse)
        ELSE /\ Len(_statements) < MaxLen
             /\ _statements' = Append(_statements, statement_entry(in[1], in[2]))
             /\ appended_since' = Append(appended_since, statement_entry(in[1], in[2]))
             /\ last' = [op |-> "append", raised |-> NoException, out |-> <<>>,
                         requests |-> <<>>, open |-> 0, status |-> "no_call",
                         errors |-> <<>>, results |-> 0,
                         entries |-> <<>>, results_key |-> FALSE]
             /\ UNCHANGED <<_execute, _commit, _finished, location_seen, commit_seen>>

\* Transaction.execute(), its POST answered by rs
execute_answered(rs) ==
    LET r == _post(execute_resource, rs)
    IN  Call("execute", r, execute_finished(_finished, r.raised), rs)

\* Transaction.execute()
execute == \E rs \in Answers : execute_answered(rs)

\* Transaction.commit(), its POST answered by rs
commit_answered(rs) ==
    LET r == _post(commit_resource, rs)
    IN  Call("commit", r, commit_finally(_finished, r.raised), rs)

\* Transaction.commit()
commit == \E rs \in Answers : commit_answered(rs)

\* Transaction.rollback(); the DELETE, when one is made, succeeds or raises
rollback ==
    IF _assert_unfinished
    THEN Call("rollback",
              Outcome(_execute, _commit, _statements, TransactionFinished, <<>>, <<>>, 0),
              _finished, NoResponse)
    ELSE \E delete_ok \in (IF rollback_requests = <<>> THEN {TRUE} ELSE BOOLEAN) :
            LET raised == IF delete_ok THEN NoException
                          ELSE TransportFailure("delete_raises")
            IN  Call("rollback",
                     Outcome(_execute, _commit, _statements, raised, <<>>,
                             rollback_requests, 0),
                     rollback_finally(_finished, raised), NoResponse)

\* one Transaction, one caller, every call atomic
Next ==
    \/ append /\ UNCHANGED <<answer_vars, session_vars, two_vars, conc_vars>>
    \/ execute /\ UNCHANGED <<answer_vars, session_vars, two_vars, conc_vars>>
    \/ commit /\ UNCHANGED <<answer_vars, session_vars, two_vars, conc_vars>>
    \/ rollback /\ UNCHANGED <<answer_vars, session_vars, two_vars, conc_vars>>

Spec == Init /\ [][Next]_allvars

-----------------------------------------------------------------------------
(* One Transaction, the latest response recorded.  The answers are drawn from a
   smaller set: bodies with at most one error and at most one result entry. *)

FewBodies ==
    { b \in Bodies : b.errors \in {<<>>, <<Error1>>} /\ b.results \in {<<>>, <<Result1>>}
                      /\ "results" \in b.keys }

FewResponses ==
    { rs \in Responses : rs.status = "ok" => rs.body \in FewBodies }

FewAnswers == IF _assert_unfinished THEN {NoResponse} ELSE FewResponses

\* the latest response obtained, after a call answered by rs
Obtained(rs) ==
    IF last'.status \in {"headers_raise", "content_raises", "ok"} THEN rs ELSE answer

NextAnswer ==
    \/ append /\ UNCHANGED <<answer_vars, session_vars, two_vars, conc_vars>>
    \/ \E rs \in FewAnswers :
          /\ execute_answered(rs)
          /\ answer' = Obtained(rs)
          /\ UNCHANGED <<session_vars, two_vars, conc_vars>>
    \/ \E rs \in FewAnswers :
          /\ commit_answered(rs)
          /\ answer' = Obtained(rs)
          /\ UNCHANGED <<session_vars, two_vars, conc_vars>>
    \/ rollback /\ UNCHANGED <<answer_vars, session_vars, two_vars, conc_vars>>

SpecAnswer == Init /\ [][NextAnswer]_allvars

-----------------------------------------------------------------------------
(* Session.execute(statement, parameters), call after call.  Its four lines are
   four steps: create_transaction, tx.append, tx.execute, return results[0]. *)

IndexError == [type |-> "IndexError", name |-> "IndexError", message |-> ""]

\* tx = self.create_transaction(): Transaction(self._transaction_uri)
session_create_transaction ==
    /\ sx.pc \in {"idle", "done"}
    /\ _statements' = <<>>
    /\ _execute' = None
    /\ _commit' = None
    /\ _finished' = FALSE
    /\ last' = NoCall
    /\ location_seen' = None
    /\ commit_seen' = None
    /\ appended_since' = <<>>
    /\ sx' = [pc |-> "created", log |-> <<>>, raised |-> NoException, ret |-> <<>>]

\* tx.append(statement, parameters)
session_append ==
    /\ sx.pc = "created"
    /\ append
    /\ sx' = [sx EXCEPT !.pc = "appended", !.log = sx.log \o last'.requests]

\* a Session.execute that commits its transaction
session_commit ==
    /\ sx.pc = "appended"
    /\ commit
    /\ sx' = [sx EXCEPT !.pc = "executed", !.log = sx.log \o last'.requests]

\* results = tx.execute()
session_execute ==
    /\ sx.pc = "appended"
    /\ execute
    /\ sx' = [sx EXCEPT !.pc = "executed", !.log = sx.log \o last'.requests]

\* return results[0]; an exception of tx.execute() has propagated instead
session_return ==
    /\ sx.pc = "executed"
    /\ sx' = IF last.raised # NoException
             THEN [sx EXCEPT !.pc = "done", !.raised = last.raised]
             ELSE IF Len(last.out) = 0
             THEN [sx EXCEPT !.pc = "done", !.raised = IndexError]
             ELSE [sx EXCEPT !.pc = "done", !.ret = last.out[1]]
    /\ UNCHANGED vars

NextSession ==
    \/ session_create_transaction /\ UNCHANGED <<answer_vars, two_vars, conc_vars>>
    \/ session_append /\ UNCHANGED <<answer_vars, two_vars, conc_vars>>
    \/ session_execute /\ UNCHANGED <<answer_vars, two_vars, conc_vars>>
    \/ session_return /\ UNCHANGED <<answer_vars, two_vars, conc_vars>>

SpecSession == Init /\ [][NextSession]_allvars

-----------------------------------------------------------------------------
(* Two Transactions of one Session, one caller working on one of them at a time
   in any interleaving.  The variables of the Transaction hold the fields of the
   one being worked on, other those of the other.  A list is an object: append
   changes it in place, _clear binds a new one. *)

\* a transport failure, or an answer without errors and with an empty results
\* array: the location "tx/1" or none, the commit field "tx/1/commit" or none
TwoAnswers ==
    IF _assert_unfinished THEN {NoResponse}
    ELSE { rs \in FewResponses :
             /\ rs.status \in {"post_raises", "ok"}
             /\ rs.location \in {None, "tx/1"}
             /\ rs.body.commit \in {None, "tx/1/commit"}
             /\ rs.body.errors = <<>> /\ rs.body.results = <<>>
             /\ "errors" \notin rs.body.keys }

\* the other Transaction after a call on this one that left this one's list in place
other_sees_list ==
    IF shared THEN [other EXCEPT !.statements = _statements'] ELSE other

\* the caller turns to the other Transaction
switch ==
    /\ current' = 3 - current
    /\ _statements' = other.statements
    /\ _execute' = other.execute
    /\ _commit' = other.commit
    /\ _finished' = other.finished
    /\ location_seen' = other.location_seen
    /\ commit_seen' = other.commit_seen
    /\ appended_since' = other.appended_since
    /\ other' = [statements |-> _statements, execute |-> _execute, commit |-> _commit,
                 finished |-> _finished, location_seen |-> location_seen,
                 commit_seen |-> commit_seen, appended_since |-> appended_since]
    /\ UNCHANGED <<last, shared, session>>

\* append on the current Transaction: self._statements.append(...) changes the list
two_append ==
    /\ _finished \/ Len(_statements) < MaxLenTwo
    /\ append
    /\ other' = other_sees_list
    /\ UNCHANGED <<shared, current, session>>

\* execute on the current Transaction: _clear, when reached, binds a new list
two_execute ==
    \E rs \in TwoAnswers :
        /\ execute_answered(rs)
        /\ shared' = (shared /\ last'.status # "ok")
        /\ other' = other
        /\ UNCHANGED <<current, session>>

\* commit on the current Transaction
two_commit ==
    \E rs \in TwoAnswers :
        /\ commit_answered(rs)
        /\ shared' = (shared /\ last'.status # "ok")
        /\ other' = other
        /\ UNCHANGED <<current, session>>

\* rollback on the current Transaction
two_rollback ==
    /\ rollback
    /\ UNCHANGED <<other, shared, current, session>>

NextTwo ==
    \/ switch /\ UNCHANGED <<answer_vars, session_vars, conc_vars>>
    \/ two_append /\ UNCHANGED <<answer_vars, session_vars, conc_vars>>
    \/ two_execute /\ UNCHANGED <<answer_vars, session_vars, conc_vars>>
    \/ two_commit /\ UNCHANGED <<answer_vars, session_vars, conc_vars>>
    \/ two_rollback /\ UNCHANGED <<answer_vars, session_vars, conc_vars>>

SpecTwo == Init /\ [][NextTwo]_allvars

-----------------------------------------------------------------------------
(* One Transaction, two callers, no lock: one calls execute, the other append.
   execute is two steps, the POST (which serialises the queue and blocks until
   the answer is there) and the rest of _post; append runs at any time.  The
   statements appended are distinct, so that each can be followed. *)

Range(seq) == {seq[i] : i \in 1..Len(seq)}

\* append by the second caller
conc_append ==
    /\ ~_finished
    /\ append
    /\ _statements'[Len(_statements')] \notin appended
    /\ appended' = appended \cup {_statements'[Len(_statements')]}
    /\ during' = IF inflight.pc = "posted"
                 THEN Append(during, _statements'[Len(_statements')])
                 ELSE during
    /\ UNCHANGED <<inflight, sent>>

\* execute, up to and with rs = resource.post({"statements": self._statements})
execute_post ==
    /\ inflight.pc = "idle"
    /\ ~_assert_unfinished
    /\ \E rs \in FewResponses :
          inflight' = [pc |-> "posted", requests |-> post_requests(execute_resource),
                       rs |-> rs]
    /\ sent' = sent \cup Range(_statements)
    /\ during' = <<>>
    /\ UNCHANGED <<vars, appended>>

\* execute, the rest of _post: headers, content, close, _clear, commit, errors, results
execute_rest ==
    /\ inflight.pc = "posted"
    /\ LET r == _post(inflight.requests[1].uri, inflight.rs)
       IN  Call("execute", [r EXCEPT !.requests = inflight.requests],
                execute_finished(_finished, r.raised), inflight.rs)
    /\ inflight' = Idle
    /\ UNCHANGED <<during, sent, appended>>

NextConc ==
    \/ conc_append /\ UNCHANGED <<answer_vars, session_vars, two_vars>>
    \/ execute_post /\ UNCHANGED <<answer_vars, session_vars, two_vars>>
    \/ execute_rest /\ UNCHANGED <<answer_vars, session_vars, two_vars>>

SpecConc == Init /\ [][NextConc]_allvars

-----------------------------------------------------------------------------
(* Properties *)

Calls == {"append", "execute", "commit", "rollback"}
Post(uri, statements) ==
    [method |-> "POST", uri |-> uri, body |-> [statements |-> statements]]
Delete(uri) == [method |-> "DELETE", uri |-> uri, body |-> None]

\* C1: every call (append, execute, commit, rollback) on a finished Transaction
\* raises TransactionFinished, makes no network call, and leaves the queue, the two
\* learned resources and the finished flag unchanged.
C1_FinishedRejectsEveryCall ==
    [][ _finished =>
          /\ last'.op \in Calls
          /\ last'.raised = TransactionFinished
          /\ last'.requests = <<>>
          /\ UNCHANGED <<_statements, _execute, _commit, _finished>> ]_vars

C1_Witness ==
    /\ _finished
    /\ last.op = "commit"
    /\ last.raised = TransactionFinished
    /\ _statements # <<>>

\* C2: after commit, the Transaction is finished, whatever the submission did:
\* results returned, server error raised, or transport failure raised.
C2_CommitAlwaysFinishes ==
    last.op = "commit" => _finished

C2_Witness ==
    /\ last.op = "commit"
    /\ last.status = "post_raises"
    /\ last.raised = TransportFailure("post_raises")
    /\ _finished

\* C3: rollback on an open Transaction that no response with a location header has
\* reached makes no network call and leaves the Transaction finished.
C3_RollbackWithoutLocationIsLocal ==
    [][ (~_finished /\ location_seen = None /\ last'.op = "rollback") =>
          /\ last'.requests = <<>>
          /\ _finished' ]_vars

C3_Witness ==
    /\ last.op = "rollback"
    /\ last.raised = NoException
    /\ location_seen = None
    /\ _finished
    /\ _statements # <<>>

\* C4: rollback on an open Transaction with a learned execute resource makes exactly
\* one network call, a DELETE of that resource, and leaves the Transaction finished
\* whether the DELETE succeeds or raises.
C4_RollbackDeletesExecuteResource ==
    [][ (~_finished /\ _execute # None /\ last'.op = "rollback") =>
          /\ last'.requests = <<Delete(_execute)>>
          /\ _finished' ]_vars

C4_Witness ==
    /\ last.op = "rollback"
    /\ last.requests = <<Delete("tx/2")>>
    /\ last.raised = TransportFailure("delete_raises")
    /\ _finished

\* C5: finished starts false and, once true, is true in every later state.
C5_FinishedMonotonic ==
    /\ ~_finished
    /\ [][ _finished => _finished' ]_vars

C5_Witness ==
    /\ _finished
    /\ last.op = "execute"
    /\ last.raised = TransactionFinished

\* C6: execute leaves finished as it was, whether it returns, raises a server error
\* or propagates a transport failure; a step that sets finished is a commit or a
\* rollback.
C6_ExecuteKeepsFinished ==
    [][ /\ last'.op = "execute" => _finished' = _finished
        /\ (~_finished /\ _finished') => last'.op \in {"commit", "rollback"} ]_vars

C6_Witness ==
    /\ last.op = "execute"
    /\ last.raised.type = "TransactionError"
    /\ ~_finished

\* C7: execute on an open Transaction makes one POST, to the location of the latest
\* response that carried a location header, and to the begin resource if none did.
C7_ExecuteTargetsLatestLocation ==
    [][ (~_finished /\ last'.op = "execute") =>
          /\ Len(last'.requests) = 1
          /\ last'.requests[1].method = "POST"
          /\ last'.requests[1].uri =
                IF location_seen # None THEN location_seen ELSE _begin ]_vars

C7_Witness ==
    /\ last.op = "execute"
    /\ last.requests # <<>>
    /\ last.requests[1].uri = "tx/1"
    /\ location_seen = "tx/2"

\* C8: commit on an open Transaction makes one POST, to the commit field of the
\* latest response body that carried one, and to the begin-commit resource
\* (begin URI + "/commit") if none did.
C8_CommitTargetsLatestCommitField ==
    [][ (~_finished /\ last'.op = "commit") =>
          /\ Len(last'.requests) = 1
          /\ last'.requests[1].method = "POST"
          /\ last'.requests[1].uri =
                IF commit_seen # None THEN commit_seen ELSE "tx/commit" ]_vars

C8_Witness ==
    /\ last.op = "commit"
    /\ last.requests # <<>>
    /\ last.requests[1].uri = "tx/2/commit"

\* C9 as stated: whenever a submission obtains a response, the queue is empty when
\* the call returns or raises.
C9_ClearedOnAnyResponse ==
    (last.op \in {"execute", "commit"}
       /\ last.status \in {"headers_raise", "content_raises", "ok"})
    => _statements = <<>>

\* C9: whenever a submission obtains a response whose headers and body are read,
\* with or without errors, the queue is empty when the call returns or raises; and
\* the body of every POST holds exactly the statements appended since the latest
\* such submission, in append order.
C9_ClearedOnParsedResponse ==
    /\ [] ((last.op \in {"execute", "commit"} /\ last.status = "ok")
             => _statements = <<>>)
    /\ [][ (~_finished /\ last'.op \in {"execute", "commit"}) =>
             /\ Len(last'.requests) = 1
             /\ last'.requests[1].body = [statements |-> appended_since] ]_vars

C9_Witness ==
    /\ last.op = "execute"
    /\ last.status = "ok"
    /\ last.raised.type = "TransactionError"
    /\ Len(last.requests[1].body.statements) = 2
    /\ _statements = <<>>

\* C10: a response whose errors array is not empty makes the call raise the
\* TransactionError named by the code of the first error and carrying its message;
\* nothing is returned, results array or not.
C10_FirstErrorRaised ==
    (last.op \in {"execute", "commit"} /\ last.status = "ok" /\ Len(last.errors) >= 1)
    => /\ last.raised = [type |-> "TransactionError",
                         name |-> last.errors[1].code,
                         message |-> last.errors[1].message]
       /\ last.out = <<>>

C10_Witness ==
    /\ last.op = "execute"
    /\ last.errors = <<Error1, Error2>>
    /\ last.results = 2
    /\ last.raised = [type |-> "TransactionError", name |-> "ConstraintViolation",
                      message |-> "m1"]

\* C11: execute on an open Transaction with n queued statements, answered without
\* errors by a results array of n entries, returns n record sequences, the i-th
\* holding one record per data row of the i-th entry, built from that entry's
\* columns and that row.
C11_OneRecordSequencePerStatement ==
    (/\ last.op = "execute"
     /\ last.status = "ok"
     /\ last.errors = <<>>
     /\ last.results_key
     /\ Len(last.entries) = Len(last.requests[1].body.statements))
    => /\ last.raised = NoException
       /\ Len(last.out) = Len(last.requests[1].body.statements)
       /\ \A i \in 1..Len(last.out) :
            /\ Len(last.out[i]) = Len(last.entries[i].data)
            /\ \A k \in 1..Len(last.out[i]) :
                 /\ last.out[i][k].columns = last.entries[i].columns
                 /\ last.out[i][k].values = hydrate(last.entries[i].data[k].rest)

C11_Witness ==
    /\ last.op = "execute"
    /\ last.status = "ok"
    /\ last.results_key
    /\ Len(last.requests[1].body.statements) = 2
    /\ last.entries = <<Result2, Result1>>
    /\ Len(last.out) = 2
    /\ Len(last.out[2]) = 1

\* C12: commit on an open Transaction with an empty queue makes exactly one network
\* call, a POST whose statements array is empty.
C12_CommitPostsEmptyQueue ==
    [][ (~_finished /\ _statements = <<>> /\ last'.op = "commit") =>
          /\ Len(last'.requests) = 1
          /\ last'.requests[1].method = "POST"
          /\ last'.requests[1].body = [statements |-> <<>>] ]_vars

C12_Witness ==
    /\ last.op = "commit"
    /\ last.requests = <<Post("tx/1/commit", <<>>)>>
    /\ last.raised = NoException
    /\ location_seen = "tx/1"

\* C15 as stated: when execute or commit returns or raises, no response handle that
\* it obtained is left open.
C15_EveryResponseClosed ==
    last.op \in {"execute", "commit"} => last.open = 0

\* C17 as stated: once a response with a location header was received, no commit
\* is POSTed to the begin-commit resource.
C17_NoBeginCommitAfterLocation ==
    [][ (~_finished /\ location_seen # None /\ last'.op = "commit") =>
          \A i \in 1..Len(last'.requests) : last'.requests[i].uri # "tx/commit" ]_vars

\* C17: once a response body with a commit field was received, no commit is POSTed
\* to the begin-commit resource; a location header alone does not redirect commit.
C17_NoBeginCommitAfterCommitField ==
    [][ (~_finished /\ commit_seen # None /\ last'.op = "commit") =>
          /\ Len(last'.requests) = 1
          /\ last'.requests[1].uri # "tx/commit" ]_vars

C17_Witness ==
    /\ last.op = "commit"
    /\ last.requests # <<>>
    /\ last.requests[1].uri = "tx/1/commit"
    /\ location_seen = "tx/2"

\* C18: an execute whose POST raises (no response obtained) leaves the queue and the
\* two learned resources as they were; and every submission sends the queue as it
\* is when the call is made, so the next one sends those statements again, followed
\* by the ones appended since.
C18_TransportFailureKeepsQueue ==
    [][ /\ (~_finished /\ last'.op = "execute" /\ last'.status = "post_raises") =>
              /\ UNCHANGED <<_statements, _execute, _commit>>
              /\ last'.requests = <<Post(IF _execute # None THEN _execute ELSE "tx",
                                         _statements)>>
              /\ appended_since' = appended_since
        /\ (~_finished /\ last'.op \in {"execute", "commit"}) =>
              /\ Len(last'.requests) = 1
              /\ last'.requests[1].body = [statements |-> _statements]
        /\ (~_finished /\ last'.op = "append" /\ last'.raised = NoException) =>
              /\ Len(_statements') = Len(_statements) + 1
              /\ SubSeq(_statements', 1, Len(_statements)) = _statements ]_vars

C18_Witness ==
    /\ last.op = "execute"
    /\ last.status = "post_raises"
    /\ last.raised = TransportFailure("post_raises")
    /\ Len(_statements) = 2
    /\ last.requests[1].body = [statements |-> _statements]
    /\ _execute = "tx/1"
    /\ ~_finished

\* what append is to put on the queue for the inputs (statement, parameters)
ExpectedEntry(statement, parameters) ==
    [statement |-> statement,
     parameters |-> IF parameters.given THEN parameters.items ELSE {},
     resultDataContents |-> <<"REST">>]

\* C20: append on an open Transaction makes no network call, leaves the learned
\* resources and the finished flag as they were, and adds exactly one entry at the
\* end of the queue: the statement, its parameters (an empty mapping when none are
\* given) and resultDataContents ["REST"].
C20_AppendAddsOneEntry ==
    [][ (~_finished /\ last'.op = "append") =>
          /\ last'.requests = <<>>
          /\ last'.raised = NoException
          /\ UNCHANGED <<_execute, _commit, _finished>>
          /\ Len(_statements') = Len(_statements) + 1
          /\ SubSeq(_statements', 1, Len(_statements)) = _statements
          /\ \E in \in AppendInputs :
                _statements'[Len(_statements')] = ExpectedEntry(in[1], in[2]) ]_vars

C20_Witness ==
    /\ last.op = "append"
    /\ ~_finished
    /\ _execute = "tx/1"
    /\ Len(_statements) = 2
    /\ _statements[1].parameters = {<<"k", 1>>}
    /\ _statements[2] = [statement |-> "s1", parameters |-> {},
                         resultDataContents |-> <<"REST">>]

\* C16: an answer with a non-empty errors array still teaches the Transaction its
\* location header and its commit field: after the execute that raised the
\* TransactionError the learned resources are those of that answer, the next
\* execute is POSTed to its location and the next commit to its commit field.
C16_ErrorAnswerStillTeaches ==
    /\ [] ((last.op = "execute" /\ last.raised.type = "TransactionError") =>
             /\ answer.location # None => _execute = answer.location
             /\ "commit" \in answer.body.keys => _commit = answer.body.commit)
    /\ [][ (~_finished /\ answer.status = "ok" /\ Len(answer.body.errors) >= 1) =>
             /\ (last'.op = "execute" /\ answer.location # None) =>
                   last'.requests = <<Post(answer.location, _statements)>>
             /\ (last'.op = "commit" /\ "commit" \in answer.body.keys) =>
                   last'.requests = <<Post(answer.body.commit, _statements)>> ]_allvars

C16_Witness ==
    /\ last.op = "execute"
    /\ last.raised.type = "TransactionError"
    /\ answer.location = "tx/2"
    /\ answer.body.commit = "tx/1/commit"
    /\ location_seen = "tx/2"
    /\ _execute = "tx/2"
    /\ _commit = "tx/1/commit"
    /\ last.requests[1].uri = "tx/1"

\* C13: a call of Session.execute makes exactly one network call, a POST to the
\* begin URI whose body holds exactly one statement (so no POST to a commit URI and
\* no DELETE); its Transaction is unfinished when the call ends, and what it returns
\* is the first of the record sequences that execute returned.
C13_SessionExecuteLeavesOpen ==
    sx.pc = "done" =>
       /\ Len(sx.log) = 1
       /\ sx.log[1].method = "POST"
       /\ sx.log[1].uri = session._transaction_uri
       /\ sx.log[1].uri = "tx"
       /\ Len(sx.log[1].body.statements) = 1
       /\ ~_finished
       /\ sx.raised = NoException =>
             /\ last.op = "execute"
             /\ last.raised = NoException
             /\ sx.ret = last.out[1]

C13_Witness ==
    /\ sx.pc = "done"
    /\ sx.raised = NoException
    /\ sx.log = <<Post("tx", <<[statement |-> "s2", parameters |-> {<<"k", 1>>},
                               resultDataContents |-> <<"REST">>]>>)>>
    /\ sx.ret = <<[columns |-> <<"a">>, values |-> [hydrated |-> "row1"]]>>
    /\ _execute = "tx/1"
    /\ ~_finished

\* C14: a call on one of the Session's two Transactions leaves the queue, the
\* learned resources and the finished flag of the other as they were, in every
\* interleaving; and the Session's begin URI never changes.
C14_TransactionsIndependent ==
    /\ [] (session._transaction_uri = "tx")
    /\ [][ current' = current =>
             /\ other'.statements = other.statements
             /\ other'.execute = other.execute
             /\ other'.commit = other.commit
             /\ other'.finished = other.finished
             /\ session' = session ]_allvars

C14_Witness ==
    /\ current = 1
    /\ last.op = "append"
    /\ last.raised = NoException
    /\ Len(_statements) = 1
    /\ _execute = "tx/1"
    /\ _commit = None
    /\ ~_finished
    /\ other.statements = <<>>
    /\ other.execute = None
    /\ other.commit = "tx/1/commit"
    /\ other.finished

\* C19: with two callers and no lock, a statement appended between the POST of an
\* execute and its clearing of the queue is lost: once that execute has read its
\* answer, the statement is in the body of no POST and is not in the queue.
C19_AppendDuringExecuteIsLost ==
    (inflight.pc = "idle" /\ last.op = "execute" /\ last.status = "ok") =>
        \A i \in 1..Len(during) :
            /\ during[i] \in appended
            /\ during[i] \notin sent
            /\ during[i] \notin Range(_statements)
            /\ during[i] \notin Range(last.requests[1].body.statements)

C19_Witness ==
    /\ inflight.pc = "idle"
    /\ last.op = "execute"
    /\ last.status = "ok"
    /\ last.raised = NoException
    /\ Len(last.requests[1].body.statements) = 1
    /\ Len(during) = 1
    /\ during[1] \in appended
    /\ during[1] \notin sent
    /\ _statements = <<>>

====
